---- MODULE Spec2Model ----
(***************************************************************************)
(* The Cursor-rules viewer: the extension host's RulesViewProvider (panel  *)
(* singleton, rule load with reachability probe, daily sync) and the       *)
(* webview App's state that the host's messages drive.                     *)
(*                                                                         *)
(* The host runs on one event loop.  An async handler runs without         *)
(* interruption up to an await of real I/O (fetch, configuration update);  *)
(* there it yields, and any other event may be handled before its          *)
(* continuation runs.  Awaits of values that are already there             *)
(* (configuration reads, synchronous fs calls wrapped in async functions)  *)
(* resume in the microtask queue, before any other event, so they do not   *)
(* split an action.  Every action below is one such uninterrupted segment. *)
(* A message posted between host and webview is applied where it is        *)
(* posted: delivery keeps the order of posting.                            *)
(*                                                                         *)
(* The pending handlers are kept as a sequence ordered by how far each has *)
(* got (Rank): which of two like handlers is which makes no difference to  *)
(* the program, and the order keeps one state for each such pair.          *)
(***************************************************************************)
EXTENDS Integers, Sequences, FiniteSets, TLC

\* ------------------------------------------------------------------ bounds
MaxHandlers == 2    \* handlers that may be awaiting I/O at the same time
MaxTicks == 1       \* milliseconds the clock advances in one behaviour

\* --------------------------------------------------------------- constants
DAY == 24 * 60 * 60 * 1000
Null == 0 - 1                      \* null / undefined / not a number
Epoch == 10 * DAY                  \* Date.now() when the extension starts

RuleA == [slug |-> "a", title |-> "Rule A", content |-> "text of a"]
RuleB == [slug |-> "b", title |-> "Rule B", content |-> "text of b"]
Bundled == <<RuleA>>               \* the rules.json shipped with the extension
RemoteLists == {<<RuleA>>, <<RuleA, RuleB>>}   \* what the remote may serve

\* A JSON text: what was serialised and with which indentation.  A file that
\* is absent and a configuration key that is unset are values of the same shape.
Stringify(rules, indent) == [kind |-> "json", indent |-> indent, val |-> rules]
Parse(text) == text.val
Missing == [kind |-> "missing", indent |-> 0, val |-> <<>>]
Unset == [kind |-> "unset", indent |-> 0, val |-> <<>>]
\* A file that cannot be read or whose text is no JSON.
Garbage == [kind |-> "text", indent |-> 0, val |-> <<>>]
Truthy(text) == text.kind = "json"

VARIABLES
  file,         \* contents of RULES_JSON_PATH (the local bundled file)
  cache,        \* configuration key cursorRules.cachedRules
  lastSync,     \* configuration key cursorRules.lastSync
  now,          \* Date.now()
  panel,        \* this._panel is defined
  app,          \* the webview App's React state
  hs,           \* the handlers awaiting I/O
  workspace,    \* the first workspace folder and its .cursorrules file
  host,         \* how many provider instances and webview panels exist
  last          \* the handler that completed in the step into this state

vars == <<file, cache, lastSync, now, panel, app, hs, workspace, host, last>>

\* ------------------------------------------------------------ handler record
Idle ==
  [kind |-> "none", pc |-> "idle",
   local |-> <<>>, fetched |-> <<>>, tsArg |-> Null,
   \* what the handler met and did
   kept |-> TRUE,            \* the panel that sent syncRules is still this._panel
   probe |-> "none",         \* how the HEAD request settled
   age |-> "none",           \* the timestamp it read at line 149, at that time
   owner |-> FALSE,          \* the persisted cache is the one it wrote
   dirty |-> FALSE,          \* a persisted key changed while its GET was pending
   gets |-> 0,               \* GET requests issued
   sync |-> "none",          \* how _syncRules ended
   wCache |-> FALSE, wTs |-> FALSE,   \* its configuration updates that landed
   \* what it returned and how it ended
   rules |-> <<>>, needsSync |-> FALSE, isOffline |-> FALSE,
   escaped |-> FALSE,        \* an error left the handler uncaught
   notified |-> "none",      \* the notification it showed
   answered |-> FALSE,       \* it posted syncComplete
   posted |-> FALSE,         \* it posted setRules
   sawTorn |-> FALSE,        \* it read both keys between a sync's two writes
   \* a setRule handler
   rule |-> RuleA,           \* the rule of the message
   prompted |-> FALSE,       \* it asked whether to overwrite
   choice |-> "none",        \* the answer it got
   wrote |-> FALSE]          \* its writeFileSync returned

\* The App's useState defaults and the rules its useEffect sets from the
\* bundled list.  lastSync is only displayed and is left out.
AppInit ==
  [rules |-> Bundled, needsSync |-> FALSE, isOffline |-> FALSE,
   isSyncing |-> FALSE, mounted |-> FALSE]

Slots == 1..Len(hs)
HasFree == Len(hs) < MaxHandlers

PcRank(pc) ==
  CASE pc = "probe" -> 1 [] pc = "get" -> 2 [] pc = "upd_cache" -> 3
    [] pc = "upd_ts" -> 4 [] pc = "prompt" -> 5 [] OTHER -> 0
Rank(h) ==
  ((((PcRank(h.pc) * 2 + (IF h.kind = "syncRules" THEN 1 ELSE 0)) * 4 + Len(h.local)) * 4
      + Len(h.fetched)) * 8) + (IF h.tsArg = Null THEN 0 ELSE 1 + (h.tsArg - Epoch))

Remove(seq, i) == SubSeq(seq, 1, i - 1) \o SubSeq(seq, i + 1, Len(seq))
Insert(seq, h) ==
  LET p == Cardinality({j \in 1..Len(seq) : Rank(seq[j]) >= Rank(h)})
  IN  SubSeq(seq, 1, p) \o <<h>> \o SubSeq(seq, p + 1, Len(seq))
\* The handler at position i goes on as h.
Step(seq, i, h) == Insert(Remove(seq, i), h)

IsLoad(h) == h.kind = "sendRules"
Done(h) == h.pc = "done"

\* The persisted cache was written by a sync whose timestamp write is pending.
Torn == \E i \in Slots : hs[i].owner /\ hs[i].pc = "upd_ts"

\* ---------------------------------------------------------------- workspace
\* An open folder without a .cursorrules file.
EmptyFolder == [folder |-> TRUE, exists |-> FALSE, text |-> ""]
\* What the window may have open: no folder, a folder without the file, a
\* folder with a file written by hand.
Workspaces ==
  {[folder |-> FALSE, exists |-> FALSE, text |-> ""],
   EmptyFolder,
   [folder |-> TRUE, exists |-> TRUE, text |-> "my own rules"]}

HasFolderAlways(w) == TRUE
\* vscode.workspace.workspaceFolders?.[0] is defined (lines 258-259).
HasFolder(w) == w.folder

FileTextTitled(rule) == rule.title
\* What _setRule writes: rule.content (line 281).
FileText(rule) == rule.content

ConfirmedUnlessNo(choice) == choice # "No"
\* choice === 'Yes' (line 274); a dismissed prompt resolves to undefined.
Confirmed(choice) == choice = "Yes"

\* ---------------------------------------------------------- pure functions
\* _getLastSync: the stored value when it is a number, else null.
GetLastSync(value) == IF value \in Nat THEN value ELSE Null

NeedsSyncWeekly(ls, t) == ls = Null \/ ls = 0 \/ t - ls > 7 * DAY
\* line 150: !lastSync || Date.now() - lastSync > 24h
NeedsSync(ls, t) == ls = Null \/ ls = 0 \/ t - ls > DAY

\* _loadLocalRules: [] when the file is missing, or reading or parsing it throws.
LoadLocalRules(f) == IF f.kind = "json" THEN Parse(f) ELSE <<>>

\* How old a stored timestamp is at time t, in the words of the spec.
Age(ls, t) == IF ls = Null THEN "absent" ELSE IF t - ls > 86400000 THEN "old" ELSE "fresh"

\* ------------------------------------------------------- App message handling
\* handleMessage, case 'setRules'
AppSetRules(a, rules, needsSync, isOffline) ==
  [a EXCEPT !.rules = rules, !.needsSync = needsSync, !.isOffline = isOffline]

\* handleMessage, case 'syncComplete'
AppSyncComplete(a) ==
  [a EXCEPT !.isSyncing = FALSE, !.needsSync = FALSE, !.isOffline = FALSE]

\* ------------------------------------------------------------- completions
\* A write changed a persisted key: the handlers with a GET pending note it.
Noting(seq, changed) ==
  [j \in 1..Len(seq) |-> IF seq[j].pc = "get" /\ changed
                         THEN [seq[j] EXCEPT !.dirty = TRUE] ELSE seq[j]]

\* A handler ends with record h; rest are the handlers still pending.
Finish(rest, h) ==
  /\ hs' = Noting(rest, lastSync' # lastSync)
  /\ last' = [h EXCEPT !.pc = "done"]

\* _sendRules after _loadRules returned (lines 102-112): read lastSync, then
\* this._panel.webview.postMessage(setRules).  p is this._panel and a the App
\* state at that moment.  With this._panel undefined the property access
\* throws a TypeError that nothing catches.
SendTail(rest, h, p, a) ==
  IF ~p
  THEN /\ app' = a
       /\ Finish(rest, [h EXCEPT !.escaped = TRUE])
  ELSE /\ app' = AppSetRules(a, h.rules, h.needsSync, h.isOffline)
       /\ Finish(rest, [h EXCEPT !.posted = TRUE])

\* The value _loadRules returns.
Result(h, rules, needsSync, isOffline) ==
  [h EXCEPT !.rules = rules, !.needsSync = needsSync, !.isOffline = isOffline]

OfflineResultCached(h) ==
  Result(h, IF Truthy(cache) THEN Parse(cache) ELSE h.local, TRUE, TRUE)
\* _loadRules when the HEAD request failed (lines 143-146).
OfflineResult(h) == Result(h, h.local, TRUE, TRUE)

CachedResultLocal(h, text) == Result(h, h.local, FALSE, FALSE)
\* _loadRules when no sync is needed and the cache key holds a string (lines 153-160).
CachedResult(h, text) == Result(h, Parse(text), FALSE, FALSE)

SyncedResultOffline(h) == Result(h, h.fetched, FALSE, TRUE)
\* _loadRules when _syncRules returned (lines 165-167).
SyncedResult(h) == Result(h, h.fetched, FALSE, FALSE)

SyncFailedResultQuiet(h) == Result(h, h.local, FALSE, TRUE)
\* _loadRules when _syncRules threw (lines 168-171).
SyncFailedResult(h) == Result(h, h.local, TRUE, TRUE)

\* _loadRules when no sync is needed and there is no cache (line 175).
FallbackResult(h) == Result(h, h.local, FALSE, FALSE)

EmptyResultSilent(h) == Result(h, <<>>, TRUE, TRUE)
\* _loadRules when the local rules are empty (lines 124-128): an error
\* notification and an empty result.
EmptyResult(h) == Result([h EXCEPT !.notified = "error"], <<>>, TRUE, TRUE)

\* _sendRules up to its first await of I/O (lines 95-136): the panel check,
\* _loadLocalRules, the empty-rules exit, and the HEAD request being issued.
StartSend(p, a) ==
  LET local == LoadLocalRules(file)
      h == [Idle EXCEPT !.kind = "sendRules", !.local = local]
  IN  IF ~p
      THEN /\ app' = a
           /\ Finish(hs, h)
      ELSE IF Len(local) = 0
      THEN SendTail(hs, EmptyResult(h), p, a)
      ELSE /\ app' = a
           /\ hs' = Insert(hs, [h EXCEPT !.pc = "probe"])
           /\ last' = Idle

CacheTextNone(rules) == Unset
\* What _syncRules stores under cursorRules.cachedRules: JSON.stringify(rules)
\* (line 229).
CacheText(rules) == Stringify(rules, 0)

\* _syncRules up to its first await (lines 203-210): the GET request is issued.
IssueGet(h) ==
  [h EXCEPT !.pc = "get", !.gets = h.gets + 1]

\* ------------------------------------------------------------------ actions
GetInstanceAlwaysNew(h) == [h EXCEPT !.instances = h.instances + 1]
\* getInstance (lines 36-42): construct the provider unless there is one.
GetInstance(h) ==
  IF h.instances = 0 THEN [h EXCEPT !.instances = h.instances + 1] ELSE h

\* vscode.window.createWebviewPanel in show (lines 52-64).
CreatePanel(h) == [h EXCEPT !.panels = h.panels + 1]

\* cursor-rules.openViewer -> getInstance(...).show(): reveal the panel that
\* exists, else create one and start the initial _sendRules without awaiting it.
Show ==
  /\ UNCHANGED <<workspace, file, cache, lastSync, now>>
  /\ IF panel
     THEN /\ UNCHANGED <<panel, app, hs>>
          /\ host' = GetInstance(host)
          /\ last' = Idle
     ELSE /\ HasFree
          /\ panel' = TRUE
          /\ host' = CreatePanel(GetInstance(host))
          /\ StartSend(TRUE, AppInit)

\* onDidDispose: the user closes the panel; the webview and its App are gone.
Dispose ==
  /\ panel
  /\ panel' = FALSE
  /\ app' = AppInit
  /\ hs' = [j \in Slots |-> IF hs[j].kind = "syncRules" THEN [hs[j] EXCEPT !.kept = FALSE]
                                                        ELSE hs[j]]
  /\ host' = [host EXCEPT !.panels = host.panels - 1]
  /\ last' = Idle
  /\ UNCHANGED <<workspace, file, cache, lastSync, now>>

\* App's useEffect on mount posts getRules; the host handles it with _sendRules.
GetRules ==
  /\ panel
  /\ ~app.mounted
  /\ HasFree
  /\ UNCHANGED <<host, workspace, file, cache, lastSync, now, panel>>
  /\ StartSend(panel, [app EXCEPT !.mounted = TRUE])

\* The HEAD request settles (lines 132-175): offline exit, or the sync decision
\* with the cached exit, the call of _syncRules, or the fallback to local rules.
ProbeDone(s) ==
  /\ hs[s].pc = "probe"
  /\ UNCHANGED <<host, workspace, file, cache, lastSync, now, panel>>
  /\ \E outcome \in {"ok", "fail"} :   \* fail: fetch threw, or response.ok is false
       LET rest == Remove(hs, s)
           ls == GetLastSync(lastSync)
           needsSync == NeedsSync(ls, now)
           h0 == [hs[s] EXCEPT !.probe = outcome]
           h1 == [h0 EXCEPT !.age = Age(ls, now)]
       IN  IF outcome # "ok"
           THEN SendTail(rest, OfflineResult(h0), panel, app)
           ELSE IF ~needsSync /\ Truthy(cache)
           THEN SendTail(rest, CachedResult([h1 EXCEPT !.sawTorn = Torn], cache), panel, app)
           ELSE IF needsSync
           THEN /\ hs' = Insert(rest, IssueGet(h1))
                /\ last' = Idle
                /\ app' = app
           ELSE SendTail(rest, FallbackResult(h1), panel, app)

\* _syncRules threw (lines 241-244).  In _loadRules the throw is caught (lines
\* 168-171) and the load returns the local rules; in the syncRules message
\* handler (lines 78-81) nothing catches it.
SyncFail(s, why) ==
  LET h == [hs[s] EXCEPT !.sync = why]
  IN  IF IsLoad(h)
      THEN SendTail(Remove(hs, s), SyncFailedResult(h), panel, app)
      ELSE /\ app' = app
           /\ Finish(Remove(hs, s), [h EXCEPT !.escaped = TRUE])

\* The GET settles and the body is read (lines 205-229): a network error, a
\* non-success status or a body that is no JSON throw; else the rules are
\* written to the local file (which may fail) and the cache update is issued.
GetDone(s) ==
  /\ hs[s].pc = "get"
  /\ UNCHANGED <<host, workspace, cache, lastSync, now, panel>>
  /\ \/ /\ SyncFail(s, "fetch")        \* fetch threw, status not ok, or json() threw
        /\ file' = file
     \/ /\ SyncFail(s, "file")         \* writeFileSync threw
        /\ file' = file
     \/ \E rules \in RemoteLists :
          /\ file' = Stringify(rules, 2)
          /\ hs' = Step(hs, s, [hs[s] EXCEPT !.pc = "upd_cache", !.fetched = rules,
                                            !.dirty = FALSE])
          /\ last' = Idle
          /\ app' = app

\* The update of cursorRules.cachedRules settles (line 229); on success
\* _setLastSync(Date.now()) is issued (lines 230, 252-254).
CacheUpdated(s) ==
  /\ hs[s].pc = "upd_cache"
  /\ UNCHANGED <<host, workspace, file, lastSync, now, panel>>
  /\ \/ /\ cache' = CacheText(hs[s].fetched)
        /\ LET rest == [j \in 1..(Len(hs) - 1) |-> [Remove(hs, s)[j] EXCEPT !.owner = FALSE]]
           IN  hs' = Insert(Noting(rest, cache' # cache),
                            [hs[s] EXCEPT !.pc = "upd_ts", !.wCache = TRUE, !.owner = TRUE,
                                          !.tsArg = now])
        /\ last' = Idle
        /\ app' = app
     \/ /\ UNCHANGED cache
        /\ SyncFail(s, "cache")

\* The update of cursorRules.lastSync settles (lines 230-240): on success
\* syncComplete is posted if a panel exists, the success notification is shown
\* and _syncRules returns the rules.
TsUpdated(s) ==
  /\ hs[s].pc = "upd_ts"
  /\ UNCHANGED <<host, workspace, file, cache, now, panel>>
  /\ \/ /\ lastSync' = hs[s].tsArg
        /\ LET h == [hs[s] EXCEPT !.sync = "ok", !.wTs = TRUE, !.notified = "info",
                                  !.answered = panel]
               a == IF panel THEN AppSyncComplete(app) ELSE app
           IN  IF IsLoad(h)
               THEN SendTail(Remove(hs, s), SyncedResult(h), panel, a)
               ELSE /\ app' = a
                    /\ Finish(Remove(hs, s), h)
     \/ /\ lastSync' = lastSync
        /\ SyncFail(s, "ts")

\* A syncRules message: the App's handleSync sets isSyncing and posts it, the
\* host handles it with _syncRules (lines 78-81).  The action is the host's
\* handling of the message whenever it arrives from an open panel; what the
\* App's button allows is stated with Next.
SyncRules ==
  /\ panel
  /\ HasFree
  /\ app' = [app EXCEPT !.isSyncing = TRUE]
  /\ hs' = Insert(hs, IssueGet([Idle EXCEPT !.kind = "syncRules"]))
  /\ last' = Idle
  /\ UNCHANGED <<host, workspace, file, cache, lastSync, now, panel>>

\* writeFileSync(cursorRulesPath, rule.content) in its try/catch (lines 280-286).
WriteRule(rest, h) ==
  \/ /\ workspace' = [workspace EXCEPT !.exists = TRUE, !.text = FileText(h.rule)]
     /\ Finish(rest, [h EXCEPT !.wrote = TRUE, !.notified = "info"])
  \/ /\ workspace' = workspace          \* writeFileSync threw
     /\ Finish(rest, [h EXCEPT !.notified = "error"])

\* A setRule message (the App's handleRuleSelect posts the rule of the card
\* the user chose; lines 74-77) is handled by _setRule up to its await: no
\* folder, or the overwrite prompt is shown, or the file is written.
SetRule(rule) ==
  /\ panel
  /\ app.mounted
  /\ HasFree
  /\ UNCHANGED <<host, file, cache, lastSync, now, panel, app>>
  /\ LET h == [Idle EXCEPT !.kind = "setRule", !.rule = rule]
     IN  IF ~HasFolder(workspace)
         THEN /\ workspace' = workspace
              /\ Finish(hs, [h EXCEPT !.notified = "error"])
         ELSE IF workspace.exists
         THEN /\ workspace' = workspace
              /\ hs' = Insert(hs, [h EXCEPT !.pc = "prompt", !.prompted = TRUE])
              /\ last' = Idle
         ELSE WriteRule(hs, h)

\* The overwrite prompt is answered or dismissed (lines 268-278).
PromptAnswered(s) ==
  /\ hs[s].pc = "prompt"
  /\ UNCHANGED <<host, file, cache, lastSync, now, panel, app>>
  /\ \E choice \in {"Yes", "No", "dismissed"} :
       LET h == [hs[s] EXCEPT !.choice = choice]
       IN  IF Confirmed(choice)
           THEN WriteRule(Remove(hs, s), h)
           ELSE /\ workspace' = workspace
                /\ Finish(Remove(hs, s), h)

\* Date.now() advances.
Tick ==
  /\ now < Epoch + MaxTicks
  /\ now' = now + 1
  /\ last' = Idle
  /\ UNCHANGED <<host, workspace, file, cache, lastSync, panel, app, hs>>

\* The extension starts: no panel, no handler.  The configuration holds what an
\* earlier session left: nothing, or a synced cache with its timestamp, here
\* exactly 24 hours old.  The local file is the one the installed extension
\* ships (an update of the extension replaces it and keeps the settings), or
\* is missing, unreadable, or an empty array.
Init ==
  /\ file \in {Stringify(Bundled, 2), Missing, Garbage, Stringify(<<>>, 2)}
  /\ \E persisted \in {<<Unset, Null>>, <<Stringify(<<RuleA, RuleB>>, 0), Epoch - DAY>>} :
       /\ cache = persisted[1]
       /\ lastSync = persisted[2]
  /\ now = Epoch
  /\ panel = FALSE
  /\ app = AppInit
  /\ hs = <<>>
  /\ workspace = EmptyFolder
  /\ host = [instances |-> 0, panels |-> 0]
  /\ last = Idle

\* The extension with its own webview.  The App renders the Sync button only
\* while it holds needsSync and not isOffline (App, line 215), and every
\* message the host posts sets the two equal or both false (SyncButtonHidden
\* below), so this App never posts syncRules.
Next ==
  \/ Show
  \/ Dispose
  \/ GetRules
  \/ Tick
  \/ \E s \in Slots : ProbeDone(s)
  \/ \E s \in Slots : GetDone(s)
  \/ \E s \in Slots : CacheUpdated(s)
  \/ \E s \in Slots : TsUpdated(s)

Spec == Init /\ [][Next]_vars

\* The host handling every message of its protocol (lines 69-82), syncRules
\* included, whenever a panel is open.
NextAnyMessage ==
  \/ Show
  \/ Dispose
  \/ GetRules
  \/ SyncRules
  \/ Tick
  \/ \E s \in Slots : ProbeDone(s)
  \/ \E s \in Slots : GetDone(s)
  \/ \E s \in Slots : CacheUpdated(s)
  \/ \E s \in Slots : TsUpdated(s)

SpecAnyMessage == Init /\ [][NextAnyMessage]_vars

\* Applying rules: a window with any of the workspaces, the viewer opened on
\* a synced cache less than a day old, and the user choosing rule cards.
InitApply ==
  /\ file = Stringify(Bundled, 2)
  /\ cache = Stringify(<<RuleA, RuleB>>, 0)
  /\ lastSync = Epoch - DAY
  /\ now = Epoch
  /\ panel = FALSE
  /\ app = AppInit
  /\ hs = <<>>
  /\ workspace \in Workspaces
  /\ host = [instances |-> 0, panels |-> 0]
  /\ last = Idle

NextApply ==
  \/ Show
  \/ Dispose
  \/ GetRules
  \/ \E s \in Slots : ProbeDone(s)
  \/ \E i \in 1..Len(app.rules) : SetRule(app.rules[i])
  \/ \E s \in Slots : PromptAnswered(s)

SpecApply == InitApply /\ [][NextApply]_vars

\* The App never holds needsSync without isOffline: the Sync button is hidden.
SyncButtonHidden == ~(app.needsSync /\ ~app.isOffline)

\* ------------------------------------------------------------------- claims
Handlers == {hs[i] : i \in Slots}
Stale == Age(GetLastSync(lastSync), now) \in {"absent", "old"}
Fresh == Age(GetLastSync(lastSync), now) = "fresh"

\* C1: a load whose reachability probe threw or returned non-success returns
\* isOffline = true and the local rules it loaded, whatever the cache and the
\* timestamp hold.
C1_OfflineReturnsLocal ==
  (Done(last) /\ IsLoad(last) /\ last.probe = "fail")
    => (last.isOffline /\ last.rules = last.local)

C1_Witness ==
  /\ Done(last) /\ IsLoad(last) /\ last.probe = "fail"
  /\ Truthy(cache) /\ Parse(cache) # last.local /\ Fresh

\* C2: a load whose probe succeeded and that read a timestamp that was absent
\* or more than 24 hours old has issued the GET of the rule list.
C2_StaleOnlineFetches ==
  \A h \in Handlers \cup {last} :
    (IsLoad(h) /\ h.probe = "ok" /\ h.age \in {"absent", "old"}) => h.gets = 1

C2_Witness ==
  \E h \in Handlers : /\ IsLoad(h) /\ h.pc = "get" /\ h.age = "old"
                      /\ lastSync = Epoch - DAY /\ now = Epoch + 1 /\ Truthy(cache)

\* C3, as stated: with a timestamp at most 24 hours old and a cache, a load
\* issues no GET and returns the cached rules with needsSync = false and
\* isOffline = false.  A load that ends without having called _syncRules ends
\* in the step in which it would read the two keys, so the keys are those of
\* the state it ends in; a load that called _syncRules read a timestamp that
\* was not fresh.
C3_Original ==
  (Done(last) /\ IsLoad(last) /\ last.sync = "none" /\ Fresh /\ Truthy(cache))
    => /\ last.gets = 0
       /\ last.rules = Parse(cache)
       /\ ~last.needsSync /\ ~last.isOffline

\* C3, amended: the same, for a load whose probe succeeded (it read the
\* timestamp, and the timestamp was fresh).
C3_FreshCachedOnline ==
  (Done(last) /\ IsLoad(last) /\ last.probe = "ok" /\ last.age = "fresh" /\ Truthy(cache))
    => /\ last.gets = 0
       /\ last.rules = Parse(cache)
       /\ ~last.needsSync /\ ~last.isOffline

C3_Witness ==
  /\ Done(last) /\ IsLoad(last) /\ last.probe = "ok" /\ last.age = "fresh" /\ last.gets = 0
  /\ Truthy(cache) /\ last.rules = Parse(cache) /\ last.rules # last.local

\* C4: when a load's sync succeeds, afterwards the persisted cache holds the
\* fetched rules, the persisted timestamp is the time passed to _setLastSync,
\* and the load returns the fetched rules, needsSync = false, isOffline = false.
C4_SyncSuccess ==
  (Done(last) /\ IsLoad(last) /\ last.sync = "ok")
    => /\ cache = Stringify(last.fetched, 0)
       /\ lastSync = last.tsArg
       /\ last.rules = last.fetched /\ ~last.needsSync /\ ~last.isOffline

\* C5: when a load's sync fails in the fetch (network error, status, parse),
\* the load returns the local rules, needsSync = true, isOffline = true, the
\* persisted keys are what they were when the attempt began, and the timestamp
\* still calls for a sync.
C5_FailedSyncKeepsState ==
  (Done(last) /\ IsLoad(last) /\ last.sync = "fetch")
    => /\ last.rules = last.local /\ last.needsSync /\ last.isOffline
       /\ ~last.dirty
       /\ Stale

\* C6: a finished sync attempt updated both persisted keys or neither, and
\* any only when it succeeded.
C6_BothOrNeither ==
  (Done(last) /\ last.sync # "none")
    => /\ last.wCache <=> last.wTs
       /\ last.wCache => last.sync = "ok"

\* C7: no load reads the two persisted keys between the two writes of a sync.
C7_NoTornRead == Done(last) => ~last.sawTorn

\* C8: at most one handler is in progress at any time.
C8_OneAtATime == Len(hs) <= 1

\* C9: no error escapes a handler uncaught.
C9_NoErrorEscapes == Done(last) => ~last.escaped

C13_EmptyLocal ==
  [][(Done(last') /\ IsLoad(last') /\ Len(last'.local) = 0)
       => /\ last'.notified = "error"
          /\ last'.rules = <<>>
          /\ last'.probe = "none" /\ last'.gets = 0
          /\ UNCHANGED <<file, cache, lastSync>>]_vars

C13_Witness ==
  /\ Done(last) /\ IsLoad(last) /\ Len(last.local) = 0 /\ last.notified = "error"
  /\ file = Garbage /\ Truthy(cache) /\ last.posted /\ app.rules = <<>>

IsApply(h) == h.kind = "setRule"

\* C14: an apply that found .cursorrules and was answered anything but 'Yes'
\* (a dismissed prompt included) leaves the file as it was, reports no error
\* and writes nothing; and a step changes an existing .cursorrules only when
\* it ends an apply that was answered 'Yes'.
C14_OverwriteNeedsYes ==
  [][/\ (Done(last') /\ IsApply(last') /\ last'.prompted /\ last'.choice # "Yes")
        => (workspace' = workspace /\ last'.notified = "none" /\ ~last'.wrote)
     /\ (workspace.exists /\ workspace' # workspace)
        => (Done(last') /\ IsApply(last') /\ last'.prompted /\ last'.choice = "Yes")]_vars

C14_Witness ==
  /\ Done(last) /\ IsApply(last) /\ last.prompted /\ last.choice = "dismissed"
  /\ workspace.exists /\ workspace.text = "my own rules"

\* C15: an apply with a folder open and no .cursorrules in it writes without
\* a prompt; and after every apply whose write succeeded the file is there
\* and holds exactly the content field of the rule applied.
C15_WritesContent ==
  [][(Done(last') /\ IsApply(last'))
       => /\ (workspace.folder /\ ~workspace.exists)
             => (~last'.prompted /\ (last'.wrote \/ last'.notified = "error"))
          /\ last'.wrote
             => (workspace'.exists /\ workspace'.text = last'.rule.content)]_vars

C15_Witness ==
  /\ Done(last) /\ IsApply(last) /\ ~last.prompted /\ last.wrote
  /\ last.rule = RuleB /\ workspace.text = "text of b"

\* C16: an apply with no workspace folder open shows an error notification,
\* asks nothing and writes nothing.
C16_NoWorkspace ==
  [][(Done(last') /\ IsApply(last') /\ ~workspace.folder)
       => /\ last'.notified = "error"
          /\ ~last'.prompted /\ ~last'.wrote
          /\ workspace' = workspace]_vars

C16_Witness ==
  Done(last) /\ IsApply(last) /\ ~workspace.folder /\ last.notified = "error"

\* C17: at most one provider instance and at most one webview panel exist,
\* and this._panel is defined exactly when a panel exists: a show that finds
\* a panel creates none, and a panel is created only when none exists.
C17_Singleton ==
  /\ host.instances <= 1
  /\ host.panels <= 1
  /\ panel <=> host.panels = 1

\* A second panel is open after the first was disposed: the App has not yet
\* mounted, and a load of the first panel is still pending beside the new one.
C17_Witness ==
  /\ host.instances = 1 /\ host.panels = 1 /\ panel
  /\ ~app.mounted /\ Len(hs) = 2

\* C18: whenever the last-sync timestamp is present the cached rule set is
\* present, and no load ends on the branch 'probe succeeded, no sync needed,
\* no cache': a load that ended after a successful probe without calling
\* _syncRules found a cache.
C18_TimestampImpliesCache ==
  /\ GetLastSync(lastSync) # Null => Truthy(cache)
  /\ (Done(last) /\ IsLoad(last) /\ last.probe = "ok" /\ last.sync = "none")
       => Truthy(cache)

C18_Witness ==
  /\ Done(last) /\ IsLoad(last) /\ last.probe = "ok" /\ last.sync = "none"
  /\ hs = <<>> /\ Parse(cache) = <<RuleA>> /\ GetLastSync(lastSync) = Epoch + 1

C20_DisposedPanelQuiet ==
  (Done(last) /\ IsLoad(last))
    => /\ ~panel => (~last.escaped /\ ~last.posted)
       /\ last.posted => panel

\* C21: when a sync attempt that got as far as writing the local file has
\* ended, successfully or not, and a cache is persisted, the local file holds
\* the rule set of the cache: the attempt did not leave the file updated
\* beside a cache that describes another rule set.
C21_FileMatchesCache ==
  (Done(last) /\ last.sync \in {"cache", "ts", "ok"} /\ Truthy(cache))
    => LoadLocalRules(file) = Parse(cache)

====
